---- MODULE Spec2Model ----
(***************************************************************************)
(* A model of the WebSocket notification server of src/main.py: the        *)
(* connection registry (ConnectionManager), the per-connection session     *)
(* handler (websocket_endpoint), the periodic notification_broadcaster,    *)
(* the GracefulShutdownManager and the lifespan that drives it.            *)
(*                                                                         *)
(* The program runs on one asyncio event loop: a task runs without         *)
(* interruption from one suspension point to the next.  Suspension points  *)
(* are the transport calls (accept, send_json, receive_text) and the       *)
(* sleeps.  Each action below is the code a task executes between two      *)
(* suspensions.  `async with self._lock` is kept visible: entering the     *)
(* block is the end of one action (the lock is taken) and the body with    *)
(* the release is the next action, so that the states in which the lock    *)
(* is held exist in the model.  No holder of the lock suspends, hence a    *)
(* task that reaches `async with self._lock` finds the lock free; the      *)
(* guard lock = {} of the entering action states that.                     *)
(*                                                                         *)
(* Transport outcomes (a send succeeding or raising, a receive returning   *)
(* data, timing out or raising, a task being cancelled) are choices of     *)
(* the environment.  Wall-clock time is the variable now; only the         *)
(* shutdown coordinator's timers are tied to it, the 10 s sleep of the     *)
(* broadcaster and the 60 s receive timeout may end at any moment.         *)
(***************************************************************************)
EXTENDS Integers, FiniteSets, Sequences, TLC

\* ---------------------------------------------------------------- bounds
\* Number of WebSocket connections the transport ever delivers.
NumHandles == 2
\* Shutdown timeout in seconds (timeout_minutes * 60 in the program), scaled.
TimeoutUnits == 7
\* Largest delay, in seconds, between the first shutdown request and the
\* lifespan reaching wait_for_shutdown.
MaxDelay == 2
\* Largest number of notification ticks the broadcaster performs.
MaxTicks == 2
\* Largest number of SIGTERM/SIGINT deliveries.
MaxSignals == 1
\* Largest number of wait_for_shutdown calls of the free caller (CallerSpec).
MaxWaitCalls == 1

\* ------------------------------------------------------ program constants
\* await asyncio.sleep(5) in wait_for_shutdown.
PollInterval == 5

Handles == 1 .. NumHandles
\* The notification_broadcaster task, as a lock owner beside the handles.
Broadcaster == 0
\* What a send_json or receive_text of the handler can raise and the outer
\* try block catches.  WebSocketDisconnect is an Exception: the clauses
\* `except WebSocketDisconnect` and `except Exception` differ in the log
\* line only.
Failures == {"Exception"}

VARIABLES
    \* ConnectionManager
    active_connections,  \* self.active_connections
    lock,                \* the set of tasks inside `async with self._lock`
    \* websocket_endpoint, one task per handle
    spc,                 \* position of the handler task of each handle
    disc_calls,          \* number of ConnectionManager.disconnect(h) executed
    raised,              \* the exception that took the handler out of its try
                         \* block, while its finally clause runs
    added,               \* handles ever inserted into the registry
    removed,             \* handles ever effectively removed from it
    \* notification_broadcaster and the broadcast call it is in
    bpc,                 \* position of the broadcaster task
    counter,             \* its local counter
    connections,         \* broadcast's local snapshot copy
    todo,                \* handles of the snapshot not yet iterated
    disconnected,        \* broadcast's local set of failed handles
    attempted,           \* handles on which this broadcast called send_json
    delivered,           \* handles whose send_json returned normally
    bcancel,             \* broadcaster_task.cancel() was called
    \* GracefulShutdownManager
    shutdown_initiated,  \* self.shutdown_initiated
    shutdown_event,      \* self.shutdown_event.is_set()
    wpc,                 \* position inside wait_for_shutdown
    start_time,          \* local start_time of wait_for_shutdown
    wake,                \* the time the pending asyncio.sleep(5) ends
    polls,               \* reads of connection_count by the current call
    wait_result,         \* how the last wait_for_shutdown call returned
    wait_calls,          \* number of wait_for_shutdown calls made
    initiate_calls,      \* number of initiate_shutdown calls made
    requested_at,        \* time of the first initiate_shutdown call, or -1
    \* lifespan and the clock
    lpc,                 \* position of the lifespan context manager
    now                  \* wall-clock time in seconds

regVars == <<active_connections, lock, added, removed>>
sessVars == <<spc, disc_calls, raised>>
bcVars == <<bpc, counter, connections, todo, disconnected, attempted, delivered>>
waitVars == <<shutdown_event, wpc, start_time, wake, polls, wait_result, wait_calls>>
flagVars == <<shutdown_initiated, initiate_calls, requested_at>>
vars == <<regVars, sessVars, bcVars, bcancel, waitVars, flagVars, lpc, now>>

\* ConnectionManager.connection_count
connection_count == Cardinality(active_connections)

Init ==
    /\ active_connections = {}
    /\ lock = {}
    /\ spc = [h \in Handles |-> "idle"]
    /\ disc_calls = [h \in Handles |-> 0]
    /\ raised = [h \in Handles |-> "none"]
    /\ added = {}
    /\ removed = {}
    /\ bpc = "start"
    /\ counter = 0
    /\ connections = {}
    /\ todo = {}
    /\ disconnected = {}
    /\ attempted = {}
    /\ delivered = {}
    /\ bcancel = FALSE
    /\ shutdown_initiated = FALSE
    /\ shutdown_event = FALSE
    /\ wpc = "idle"
    /\ start_time = 0
    /\ wake = 0
    /\ polls = 0
    /\ wait_result = "none"
    /\ wait_calls = 0
    /\ initiate_calls = 0
    /\ requested_at = -1
    /\ lpc = "serving"
    /\ now = 0

\* ------------------------------------------------------------------------
\* websocket_endpoint(websocket) and ConnectionManager.connect / disconnect
\* ------------------------------------------------------------------------

\* The transport delivers a connection: the handler task starts and suspends
\* in connect's `await websocket.accept()`.
Open(h) ==
    /\ spc[h] = "idle"
    /\ lpc # "done"
    /\ spc' = [spc EXCEPT ![h] = "accept"]
    /\ UNCHANGED <<regVars, disc_calls, raised, bcVars, bcancel, waitVars,
                   flagVars, lpc, now>>

\* accept() returns; connect enters `async with self._lock`.
AcceptOk(h) ==
    /\ spc[h] = "accept"
    /\ lock = {}
    /\ lock' = {h}
    /\ spc' = [spc EXCEPT ![h] = "add_locked"]
    /\ UNCHANGED <<active_connections, added, removed, disc_calls, raised,
                   bcVars, bcancel, waitVars, flagVars, lpc, now>>

\* accept() raises, or the task is cancelled in it: connect is outside the
\* try block, the handler ends without having registered.
AcceptFail(h) ==
    /\ spc[h] = "accept"
    /\ spc' = [spc EXCEPT ![h] = "done"]
    /\ UNCHANGED <<regVars, disc_calls, raised, bcVars, bcancel, waitVars, flagVars,
                   lpc, now>>

\* Mutant of Add: the handler goes to its receive loop without sending the
\* welcome.
Add_SkipWelcome(h) ==
    /\ spc[h] = "add_locked"
    /\ active_connections' = active_connections \cup {h}
    /\ added' = added \cup {h}
    /\ lock' = lock \ {h}
    /\ spc' = [spc EXCEPT ![h] = "recv"]
    /\ UNCHANGED <<removed, disc_calls, raised, bcVars, bcancel, waitVars,
                   flagVars, lpc, now>>

\* self.active_connections.add(websocket) and the release of the lock; the
\* handler goes on to send the welcome and suspends in that send_json.
Add(h) ==
    /\ spc[h] = "add_locked"
    /\ active_connections' = active_connections \cup {h}
    /\ added' = added \cup {h}
    /\ lock' = lock \ {h}
    /\ spc' = [spc EXCEPT ![h] = "welcome"]
    /\ UNCHANGED <<removed, disc_calls, raised, bcVars, bcancel, waitVars,
                   flagVars, lpc, now>>

\* The exception e leaves the try block (`except WebSocketDisconnect`,
\* `except Exception`, or, for CancelledError, no except clause at all)
\* into `finally`, and disconnect enters `async with self._lock`.
EnterFinally(h, e) ==
    /\ lock = {}
    /\ lock' = {h}
    /\ spc' = [spc EXCEPT ![h] = "disc_locked"]
    /\ raised' = [raised EXCEPT ![h] = e]
    /\ UNCHANGED <<active_connections, added, removed, disc_calls, bcVars,
                   bcancel, waitVars, flagVars, lpc, now>>

\* A send_json of the handler (welcome, echo or ping) returns: the handler
\* suspends in wait_for(receive_text(), 60).
SendOk(h) ==
    /\ spc[h] \in {"welcome", "echo", "ping"}
    /\ spc' = [spc EXCEPT ![h] = "recv"]
    /\ UNCHANGED <<regVars, disc_calls, raised, bcVars, bcancel, waitVars,
                   flagVars, lpc, now>>

\* A send_json of the handler raises (WebSocketDisconnect or another error).
SendFail(h) ==
    /\ spc[h] \in {"welcome", "echo", "ping"}
    /\ \E e \in Failures : EnterFinally(h, e)

\* receive_text() returns data: the handler sends the echo.
RecvData(h) ==
    /\ spc[h] = "recv"
    /\ spc' = [spc EXCEPT ![h] = "echo"]
    /\ UNCHANGED <<regVars, disc_calls, raised, bcVars, bcancel, waitVars,
                   flagVars, lpc, now>>

\* Mutant of RecvTimeout: the TimeoutError is not caught inside the loop
\* and leaves the try block.
RecvTimeout_Propagates(h) ==
    /\ spc[h] = "recv"
    /\ EnterFinally(h, "TimeoutError")

\* wait_for raises TimeoutError: the handler sends a ping.
RecvTimeout(h) ==
    /\ spc[h] = "recv"
    /\ spc' = [spc EXCEPT ![h] = "ping"]
    /\ UNCHANGED <<regVars, disc_calls, raised, bcVars, bcancel, waitVars,
                   flagVars, lpc, now>>

\* receive_text() raises WebSocketDisconnect or another error.
RecvFail(h) ==
    /\ spc[h] = "recv"
    /\ \E e \in Failures : EnterFinally(h, e)

\* Mutant of CancelSession: the cancellation ends the task without running
\* the finally clause.
CancelSession_NoFinally(h) ==
    /\ spc[h] \in {"welcome", "recv", "echo", "ping"}
    /\ spc' = [spc EXCEPT ![h] = "done"]
    /\ UNCHANGED <<regVars, disc_calls, raised, bcVars, bcancel, waitVars, flagVars,
                   lpc, now>>

\* The handler task is cancelled while suspended inside the try block:
\* CancelledError is no Exception, only the finally clause runs.
CancelSession(h) ==
    /\ spc[h] \in {"welcome", "recv", "echo", "ping"}
    /\ EnterFinally(h, "CancelledError")

\* Mutant of Discard: the set is cleared instead of one handle discarded.
Discard_Clear(h) ==
    /\ spc[h] = "disc_locked"
    /\ active_connections' = {}
    /\ removed' = IF h \in active_connections THEN removed \cup {h} ELSE removed
    /\ disc_calls' = [disc_calls EXCEPT ![h] = @ + 1]
    /\ lock' = lock \ {h}
    /\ spc' = [spc EXCEPT ![h] = "done"]
    /\ raised' = [raised EXCEPT ![h] = "none"]
    /\ UNCHANGED <<added, bcVars, bcancel, waitVars, flagVars, lpc, now>>

\* self.active_connections.discard(websocket) and the release of the lock;
\* the handler task is finished.
Discard(h) ==
    /\ spc[h] = "disc_locked"
    /\ active_connections' = active_connections \ {h}
    /\ removed' = IF h \in active_connections THEN removed \cup {h} ELSE removed
    /\ disc_calls' = [disc_calls EXCEPT ![h] = @ + 1]
    /\ lock' = lock \ {h}
    /\ spc' = [spc EXCEPT ![h] = "done"]
    /\ raised' = [raised EXCEPT ![h] = "none"]
    /\ UNCHANGED <<added, bcVars, bcancel, waitVars, flagVars,
                   lpc, now>>

SessionNext ==
    \E h \in Handles :
        \/ Open(h)
        \/ AcceptOk(h)
        \/ AcceptFail(h)
        \/ Add(h)
        \/ SendOk(h)
        \/ SendFail(h)
        \/ RecvData(h)
        \/ RecvTimeout(h)
        \/ RecvFail(h)
        \/ CancelSession(h)
        \/ Discard(h)

\* ------------------------------------------------------------------------
\* notification_broadcaster() and ConnectionManager.broadcast
\* ------------------------------------------------------------------------

\* Mutant of LoopCheck: the loop condition ignores the flag.
LoopCheck_Always == "sleep"

\* `while not shutdown_manager.shutdown_initiated`: the position the
\* broadcaster reaches when it evaluates the loop condition.
LoopCheck == IF shutdown_initiated THEN "done" ELSE "sleep"

\* The locals of a broadcast call are gone.
NoBroadcast ==
    /\ connections' = {}
    /\ todo' = {}
    /\ disconnected' = {}
    /\ attempted' = {}
    /\ delivered' = {}

\* The task runs for the first time and evaluates the loop condition.
BStart ==
    /\ bpc = "start"
    /\ ~bcancel
    /\ bpc' = LoopCheck
    /\ UNCHANGED <<regVars, sessVars, counter, connections, todo, disconnected,
                   attempted, delivered, bcancel, waitVars, flagVars, lpc, now>>

\* Mutant of BWake: broadcast has no test for an empty registry and always
\* goes on to the snapshot.
BWake_NoFastPath ==
    /\ bpc = "sleep"
    /\ ~bcancel
    /\ counter < MaxTicks
    /\ counter' = counter + 1
    /\ UNCHANGED <<connections, todo, disconnected, attempted, delivered>>
    /\ lock = {}
    /\ lock' = {Broadcaster}
    /\ bpc' = "snap_locked"
    /\ UNCHANGED <<active_connections, added, removed, sessVars, bcancel,
                   waitVars, flagVars, lpc, now>>

\* Mutant of BWake: the sleep of a cancelled task returns normally and the
\* tick is performed.
BWake_IgnoreCancel ==
    /\ bpc = "sleep"
    /\ counter < MaxTicks
    /\ counter' = counter + 1
    /\ UNCHANGED <<connections, todo, disconnected, attempted, delivered>>
    /\ IF active_connections = {}
       THEN /\ bpc' = "ret"
            /\ lock' = lock
       ELSE /\ lock = {}
            /\ lock' = {Broadcaster}
            /\ bpc' = "snap_locked"
    /\ UNCHANGED <<active_connections, added, removed, sessVars, bcancel,
                   waitVars, flagVars, lpc, now>>

\* asyncio.sleep(10) returns: counter += 1, the message is built and
\* broadcast is called.  With an empty registry broadcast returns at once;
\* otherwise it enters `async with self._lock` for the snapshot.
BWake ==
    /\ bpc = "sleep"
    /\ ~bcancel
    /\ counter < MaxTicks
    /\ counter' = counter + 1
    /\ UNCHANGED <<connections, todo, disconnected, attempted, delivered>>
    /\ IF active_connections = {}
       THEN /\ bpc' = "ret"
            /\ lock' = lock
       ELSE /\ lock = {}
            /\ lock' = {Broadcaster}
            /\ bpc' = "snap_locked"
    /\ UNCHANGED <<active_connections, added, removed, sessVars, bcancel,
                   waitVars, flagVars, lpc, now>>

\* An exception other than CancelledError is raised in the tick after the
\* sleep, by building the message or by broadcast before it takes its lock:
\* `except Exception as e` logs it and the loop condition is evaluated
\* again.
BTickError ==
    /\ bpc = "sleep"
    /\ ~bcancel
    /\ counter < MaxTicks
    /\ counter' = counter + 1
    /\ bpc' = LoopCheck
    /\ UNCHANGED <<regVars, sessVars, connections, todo, disconnected,
                   attempted, delivered, bcancel, waitVars, flagVars, lpc, now>>

\* Mutant of BSnapshot: the sends are made inside `async with self._lock`.
BSnapshot_KeepLock ==
    /\ bpc = "snap_locked"
    /\ connections' = active_connections
    /\ todo' = active_connections
    /\ lock' = lock
    /\ bpc' = "send"
    /\ UNCHANGED <<active_connections, added, removed, sessVars, counter,
                   disconnected, attempted, delivered, bcancel, waitVars,
                   flagVars, lpc, now>>

\* connections = self.active_connections.copy() and the release of the
\* lock; the loop over the copy starts and suspends in the first send_json.
\* Over an empty copy the loop body never runs, `if disconnected` is false
\* and broadcast returns.
BSnapshot ==
    /\ bpc = "snap_locked"
    /\ connections' = active_connections
    /\ todo' = active_connections
    /\ lock' = lock \ {Broadcaster}
    /\ bpc' = IF active_connections = {} THEN "ret" ELSE "send"
    /\ UNCHANGED <<active_connections, added, removed, sessVars, counter,
                   disconnected, attempted, delivered, bcancel, waitVars,
                   flagVars, lpc, now>>

\* What follows the send on one handle, rest being the handles still to
\* iterate and failed the failed ones: the next send_json, or, the loop
\* over, `if disconnected: async with self._lock`, or the return of
\* broadcast.
AfterSend(rest, failed) ==
    IF rest # {}
    THEN /\ bpc' = "send"
         /\ lock' = lock
    ELSE IF failed # {}
         THEN /\ lock = {}
              /\ lock' = {Broadcaster}
              /\ bpc' = "rem_locked"
         ELSE /\ bpc' = "ret"
              /\ lock' = lock

\* Mutant of BSendOk: the loop iterates the live registry, not the copy.
BSendOk_LiveSet(h) ==
    /\ bpc = "send"
    /\ ~bcancel
    /\ h \in todo \cup (active_connections \ attempted)
    /\ todo' = (todo \cup (active_connections \ attempted)) \ {h}
    /\ attempted' = attempted \cup {h}
    /\ delivered' = delivered \cup {h}
    /\ disconnected' = disconnected
    /\ AfterSend((todo \cup (active_connections \ attempted)) \ {h},
                 disconnected)
    /\ UNCHANGED <<active_connections, added, removed, sessVars, counter,
                   connections, bcancel, waitVars, flagVars, lpc, now>>

\* connection.send_json(message) returns for one handle of the copy.
BSendOk(h) ==
    /\ bpc = "send"
    /\ ~bcancel
    /\ h \in todo
    /\ todo' = todo \ {h}
    /\ attempted' = attempted \cup {h}
    /\ delivered' = delivered \cup {h}
    /\ disconnected' = disconnected
    /\ AfterSend(todo \ {h}, disconnected)
    /\ UNCHANGED <<active_connections, added, removed, sessVars, counter,
                   connections, bcancel, waitVars, flagVars, lpc, now>>

\* Mutant of BSendFail: the first failure ends the loop over the copy.
BSendFail_Abort(h) ==
    /\ bpc = "send"
    /\ ~bcancel
    /\ h \in todo
    /\ todo' = {}
    /\ attempted' = attempted \cup {h}
    /\ delivered' = delivered
    /\ disconnected' = disconnected \cup {h}
    /\ AfterSend({}, disconnected \cup {h})
    /\ UNCHANGED <<active_connections, added, removed, sessVars, counter,
                   connections, bcancel, waitVars, flagVars, lpc, now>>

\* Mutant of BSendFail: the failed handle is removed from the registry at
\* once, during the send pass.
BSendFail_RemoveNow(h) ==
    /\ bpc = "send"
    /\ ~bcancel
    /\ h \in todo
    /\ todo' = todo \ {h}
    /\ attempted' = attempted \cup {h}
    /\ delivered' = delivered
    /\ disconnected' = disconnected \cup {h}
    /\ AfterSend(todo \ {h}, disconnected \cup {h})
    /\ active_connections' = active_connections \ {h}
    /\ removed' = IF h \in active_connections THEN removed \cup {h} ELSE removed
    /\ UNCHANGED <<added, sessVars, counter, connections, bcancel, waitVars,
                   flagVars, lpc, now>>

\* connection.send_json(message) raises an Exception for one handle:
\* disconnected.add(connection), and the loop goes on.
BSendFail(h) ==
    /\ bpc = "send"
    /\ ~bcancel
    /\ h \in todo
    /\ todo' = todo \ {h}
    /\ attempted' = attempted \cup {h}
    /\ delivered' = delivered
    /\ disconnected' = disconnected \cup {h}
    /\ AfterSend(todo \ {h}, disconnected \cup {h})
    /\ UNCHANGED <<active_connections, added, removed, sessVars, counter,
                   connections, bcancel, waitVars, flagVars, lpc, now>>

\* self.active_connections -= disconnected and the release of the lock;
\* broadcast returns.
BRemove ==
    /\ bpc = "rem_locked"
    /\ active_connections' = active_connections \ disconnected
    /\ removed' = removed \cup (disconnected \cap active_connections)
    /\ lock' = lock \ {Broadcaster}
    /\ bpc' = "ret"
    /\ UNCHANGED <<added, sessVars, counter, connections, todo, disconnected,
                   attempted, delivered, bcancel, waitVars, flagVars, lpc, now>>

\* Mutant of BReturn: a broadcast in which a send failed ends the loop.
BReturn_StopOnFailure ==
    /\ bpc = "ret"
    /\ bpc' = IF disconnected # {} THEN "done" ELSE LoopCheck
    /\ NoBroadcast
    /\ UNCHANGED <<regVars, sessVars, counter, bcancel, waitVars, flagVars,
                   lpc, now>>

\* broadcast has returned: the broadcaster logs and evaluates the loop
\* condition again (a signal handler may have run in between).
BReturn ==
    /\ bpc = "ret"
    /\ bpc' = LoopCheck
    /\ NoBroadcast
    /\ UNCHANGED <<regVars, sessVars, counter, bcancel, waitVars, flagVars,
                   lpc, now>>

\* The cancelled task gets CancelledError at its suspension point (the
\* sleep, or a send_json, whose `except Exception` does not catch it):
\* `except asyncio.CancelledError: break`.  A task cancelled before its
\* first run never runs.
BCancelled ==
    /\ bcancel
    /\ bpc \in {"start", "sleep", "send"}
    /\ bpc' = "done"
    /\ NoBroadcast
    /\ UNCHANGED <<regVars, sessVars, counter, bcancel, waitVars, flagVars,
                   lpc, now>>

BroadcasterNext ==
    \/ BStart
    \/ BWake
    \/ BTickError
    \/ BSnapshot
    \/ \E h \in Handles : BSendOk(h) \/ BSendFail(h)
    \/ BRemove
    \/ BReturn

\* ------------------------------------------------------------------------
\* GracefulShutdownManager
\* ------------------------------------------------------------------------

\* Mutant of InitiateShutdown: the flag is toggled instead of set.
InitiateShutdown_Toggle ==
    /\ shutdown_initiated' = ~shutdown_initiated
    /\ initiate_calls' = initiate_calls + 1
    /\ requested_at' = IF requested_at = -1 THEN now ELSE requested_at

\* initiate_shutdown(): self.shutdown_initiated = True.
InitiateShutdown ==
    /\ shutdown_initiated' = TRUE
    /\ initiate_calls' = initiate_calls + 1
    /\ requested_at' = IF requested_at = -1 THEN now ELSE requested_at

\* Mutant of LoopBody: the timeout is tested before the count.
LoopBody_TimeoutFirst(t0, p) ==
    /\ polls' = p + 1
    /\ IF now - t0 >= TimeoutUnits
       THEN /\ shutdown_event' = TRUE
            /\ wait_result' = "forced"
            /\ wpc' = "idle"
            /\ wake' = wake
       ELSE IF connection_count = 0
            THEN /\ shutdown_event' = TRUE
                 /\ wait_result' = "graceful"
                 /\ wpc' = "idle"
                 /\ wake' = wake
            ELSE /\ shutdown_event' = shutdown_event
                 /\ wait_result' = "none"
                 /\ wpc' = "sleeping"
                 /\ wake' = now + PollInterval

\* Mutant of LoopBody: the loop gives up when less than one poll interval remains.
LoopBody_EarlyTimeout(t0, p) ==
    /\ polls' = p + 1
    /\ IF connection_count = 0
       THEN /\ shutdown_event' = TRUE
            /\ wait_result' = "graceful"
            /\ wpc' = "idle"
            /\ wake' = wake
       ELSE IF now - t0 + PollInterval >= TimeoutUnits
            THEN /\ shutdown_event' = TRUE
                 /\ wait_result' = "forced"
                 /\ wpc' = "idle"
                 /\ wake' = wake
            ELSE /\ shutdown_event' = shutdown_event
                 /\ wait_result' = "none"
                 /\ wpc' = "sleeping"
                 /\ wake' = now + PollInterval

\* Mutant of LoopBody: the loop gives up one poll interval after the timeout.
LoopBody_LateTimeout(t0, p) ==
    /\ polls' = p + 1
    /\ IF connection_count = 0
       THEN /\ shutdown_event' = TRUE
            /\ wait_result' = "graceful"
            /\ wpc' = "idle"
            /\ wake' = wake
       ELSE IF now - t0 >= TimeoutUnits + PollInterval
            THEN /\ shutdown_event' = TRUE
                 /\ wait_result' = "forced"
                 /\ wpc' = "idle"
                 /\ wake' = wake
            ELSE /\ shutdown_event' = shutdown_event
                 /\ wait_result' = "none"
                 /\ wpc' = "sleeping"
                 /\ wake' = now + PollInterval

\* Mutant of LoopBody: the loop has no timeout branch.
LoopBody_NoTimeout(t0, p) ==
    /\ polls' = p + 1
    /\ IF connection_count = 0
       THEN /\ shutdown_event' = TRUE
            /\ wait_result' = "graceful"
            /\ wpc' = "idle"
            /\ wake' = wake
       ELSE IF FALSE
            THEN /\ shutdown_event' = TRUE
                 /\ wait_result' = "forced"
                 /\ wpc' = "idle"
                 /\ wake' = wake
            ELSE /\ shutdown_event' = shutdown_event
                 /\ wait_result' = "none"
                 /\ wpc' = "sleeping"
                 /\ wake' = now + PollInterval

\* One pass of the `while True` loop of wait_for_shutdown, at time now, in
\* a call that started at t0 and has read connection_count p times.
LoopBody(t0, p) ==
    /\ polls' = p + 1
    /\ IF connection_count = 0
       THEN /\ shutdown_event' = TRUE
            /\ wait_result' = "graceful"
            /\ wpc' = "idle"
            /\ wake' = wake
       ELSE IF now - t0 >= TimeoutUnits
            THEN /\ shutdown_event' = TRUE
                 /\ wait_result' = "forced"
                 /\ wpc' = "idle"
                 /\ wake' = wake
            ELSE /\ shutdown_event' = shutdown_event
                 /\ wait_result' = "none"
                 /\ wpc' = "sleeping"
                 /\ wake' = now + PollInterval

\* Mutant of WaitCall: the call polls whether or not shutdown was initiated.
WaitCall_NoGuard ==
    /\ wpc = "idle"
    /\ wait_calls' = wait_calls + 1
    /\ start_time' = now
    /\ LoopBody(now, 0)

\* A call of wait_for_shutdown(), up to its return or its first sleep.
WaitCall ==
    /\ wpc = "idle"
    /\ wait_calls' = wait_calls + 1
    /\ IF ~shutdown_initiated
       THEN /\ wait_result' = "early"
            /\ polls' = 0
            /\ UNCHANGED <<shutdown_event, wpc, start_time, wake>>
       ELSE /\ start_time' = now
            /\ LoopBody(now, 0)

\* Mutant of WaitWake: on the forced exit the registry is emptied.
WaitWake_ForceClose ==
    /\ wpc = "sleeping"
    /\ now >= wake
    /\ LoopBody(start_time, polls)
    /\ lpc' = IF lpc = "waiting" /\ wpc' = "idle" THEN "done" ELSE lpc
    /\ active_connections' =
           IF wait_result' = "forced" THEN {} ELSE active_connections
    /\ removed' =
           IF wait_result' = "forced" THEN removed \cup active_connections
                                      ELSE removed
    /\ UNCHANGED <<lock, added, sessVars, bcVars, bcancel, start_time,
                   wait_calls, flagVars, now>>

\* asyncio.sleep(5) returns and the loop of wait_for_shutdown runs again;
\* the lifespan ends when the call it awaits returns.
WaitWake ==
    /\ wpc = "sleeping"
    /\ now >= wake
    /\ LoopBody(start_time, polls)
    /\ lpc' = IF lpc = "waiting" /\ wpc' = "idle" THEN "done" ELSE lpc
    /\ UNCHANGED <<regVars, sessVars, bcVars, bcancel, start_time, wait_calls,
                   flagVars, now>>

\* ------------------------------------------------------------------------
\* lifespan, the signal handler, the clock
\* ------------------------------------------------------------------------

\* signal_handler(signum, frame): SIGTERM or SIGINT is delivered.
Signal ==
    /\ lpc # "done"
    /\ initiate_calls < MaxSignals
    /\ InitiateShutdown
    /\ UNCHANGED <<regVars, sessVars, bcVars, bcancel, waitVars, lpc, now>>

\* The lifespan resumes after its yield: initiate_shutdown() and
\* broadcaster_task.cancel(), then it awaits the broadcaster task.
LShutdown ==
    /\ lpc = "serving"
    /\ InitiateShutdown
    /\ bcancel' = TRUE
    /\ lpc' = "await_task"
    /\ UNCHANGED <<regVars, sessVars, bcVars, waitVars, now>>

\* `await broadcaster_task` returns and the lifespan calls
\* wait_for_shutdown().
LJoin ==
    /\ lpc = "await_task"
    /\ bpc = "done"
    /\ WaitCall
    /\ lpc' = IF wpc' = "idle" THEN "done" ELSE "waiting"
    /\ UNCHANGED <<regVars, sessVars, bcVars, bcancel, flagVars, now>>

\* The latest time the model lets the clock reach: every wait_for_shutdown
\* call has returned by then.
MaxTime == MaxDelay + MaxWaitCalls * (TimeoutUnits + PollInterval)

\* Time passes.  It is counted from the first shutdown request, the first
\* reading of the clock that matters.  Before wait_for_shutdown runs, one
\* second passes; while it sleeps, the time up to the end of that sleep
\* passes (nothing else reads the clock, and the sleep ends on time).  The
\* lifespan's await of the cancelled broadcaster task takes no time.
Tick ==
    /\ shutdown_initiated
    /\ lpc \notin {"await_task", "done"}
    /\ IF wpc = "sleeping"
       THEN /\ now < wake
            /\ wake <= MaxTime
            /\ now' = wake
       ELSE /\ now < MaxDelay
            /\ now' = now + 1
    /\ UNCHANGED <<regVars, sessVars, bcVars, bcancel, waitVars, flagVars, lpc>>

\* The program: the server with its lifespan.
Next ==
    \/ SessionNext
    \/ BroadcasterNext
    \/ BCancelled
    \/ Signal
    \/ LShutdown
    \/ LJoin
    \/ WaitWake
    \/ Tick

Spec == Init /\ [][Next]_vars

\* The program with time advancing and the event loop running every task
\* that is ready: the coordinator whenever its sleep has ended, the
\* cancelled broadcaster, and the lifespan once the task it awaits is done.
FairSpec ==
    /\ Spec
    /\ WF_vars(Tick)
    /\ WF_vars(WaitWake)
    /\ WF_vars(BCancelled)
    /\ WF_vars(LJoin)

\* ------------------------------------------------------------------------
\* The manager's methods called in any order, as a unit test calls them:
\* connections come and go, but there is no lifespan, hence no broadcaster
\* task (the lifespan creates it).
\* ------------------------------------------------------------------------

\* A caller calls wait_for_shutdown(), whether or not shutdown was initiated.
CallWait ==
    /\ lpc = "serving"
    /\ wait_calls < MaxWaitCalls
    /\ WaitCall
    /\ UNCHANGED <<regVars, sessVars, bcVars, bcancel, flagVars, lpc, now>>

CallerNext ==
    \/ SessionNext
    \/ Signal
    \/ CallWait
    \/ WaitWake
    \/ Tick

CallerSpec == Init /\ [][CallerNext]_vars

\* ------------------------------------------------------------------------
\* Properties
\* ------------------------------------------------------------------------

\* C1: the registry's count equals the number of distinct handles added
\* minus the number of distinct handles effectively removed (by disconnect
\* or by broadcast's removal of failed handles), duplicates counted once.
C1_CountIsAddedMinusRemoved ==
    connection_count = Cardinality(added) - Cardinality(removed)

\* Both handles were added and both removed, one of them by broadcast while
\* its handler was still running, the other's handler has run disconnect.
C1_Witness ==
    \E h1 \in Handles, h2 \in Handles :
        /\ h1 # h2
        /\ {h1, h2} \subseteq removed
        /\ spc[h1] = "done" /\ disc_calls[h1] = 1
        /\ spc[h2] \in {"recv", "echo", "ping"}
        /\ connection_count = 0

\* A broadcast call has returned after a pass over a non-empty snapshot.
BroadcastReturned == bpc = "ret" /\ connections # {}

\* C2: when a broadcast over N handles of which M failed returns, send was
\* attempted on all N, exactly the N-M others received the payload, the M
\* failed handles are absent from the registry and the N-M others are still
\* registered unless their own handler has run disconnect.
C2_BroadcastOutcome ==
    BroadcastReturned =>
        /\ todo = {}
        /\ attempted = connections
        /\ disconnected \subseteq connections
        /\ delivered = connections \ disconnected
        /\ Cardinality(delivered)
               = Cardinality(connections) - Cardinality(disconnected)
        /\ disconnected \cap active_connections = {}
        /\ \A h \in connections \ disconnected :
               h \in active_connections \/ disc_calls[h] > 0

\* A broadcast over two handles returned, one send failed and the other
\* handle got the payload and is still registered.
C2_Witness ==
    /\ BroadcastReturned
    /\ Cardinality(connections) = 2
    /\ Cardinality(disconnected) = 1
    /\ delivered \subseteq active_connections
    /\ delivered # {}

\* The positions at which a handler task is suspended in a transport call.
SessionSuspended == {"accept", "welcome", "recv", "echo", "ping"}

\* C3: no task is in a transport operation or a sleep while it holds the
\* registry lock; the lock has one holder at most, and the holder is at the
\* set insert of connect, the set discard of disconnect, or the snapshot
\* copy or batch removal of broadcast.
C3_NoSuspensionUnderLock ==
    /\ Cardinality(lock) <= 1
    /\ \A h \in Handles :
           /\ spc[h] \in SessionSuspended => h \notin lock
           /\ h \in lock => spc[h] \in {"add_locked", "disc_locked"}
    /\ bpc \in {"sleep", "send"} => Broadcaster \notin lock
    /\ Broadcaster \in lock => bpc \in {"snap_locked", "rem_locked"}

\* broadcast holds the lock for its batch removal while a handler is
\* suspended in a transport call.
C3_Witness ==
    /\ lock = {Broadcaster}
    /\ bpc = "rem_locked"
    /\ \E h \in Handles : spc[h] \in SessionSuspended

\* C4: a handler that registered its handle and has finished has run
\* disconnect exactly once, its handle is not in the registry (in this and
\* every later state), and no handler runs disconnect twice.
C4_DisconnectExactlyOnce ==
    \A h \in Handles :
        /\ disc_calls[h] <= 1
        /\ (spc[h] = "done" /\ h \in added) =>
               (disc_calls[h] = 1 /\ h \notin active_connections)

\* Both handlers registered and have finished while the broadcaster goes on.
C4_Witness ==
    /\ \A h \in Handles : spc[h] = "done" /\ h \in added /\ disc_calls[h] = 1
    /\ bpc = "sleep"
    /\ counter > 0

\* A step of wait_for_shutdown: the call, or a wake-up of its loop.
WaitStep == wait_calls' # wait_calls \/ polls' # polls

\* A step of wait_for_shutdown that ran the loop body once: it read
\* connection_count and the clock.
Polled == WaitStep /\ polls' > 0

\* C5: a poll that reads connection_count = 0 ends the wait at once on the
\* graceful branch, with no further sleep, also when the timeout has
\* elapsed at that poll; the forced branch is taken only at a poll that
\* reads a nonzero count.
C5_GracefulAtFirstZeroCount ==
    [][/\ (Polled /\ connection_count = 0) =>
              /\ wait_result' = "graceful"
              /\ wpc' = "idle"
              /\ shutdown_event'
       /\ (Polled /\ wait_result' = "forced") => connection_count # 0
      ]_vars

\* Both connections registered and closed during the drain, and the wait
\* ended gracefully at a poll (not its first) made after the timeout.
C5_Witness ==
    /\ wait_result = "graceful"
    /\ polls >= 2
    /\ now - start_time >= TimeoutUnits
    /\ added = Handles
    /\ removed = Handles

\* C6: at a poll that reads a nonzero count the wait ends only on the
\* forced branch, and only when the timeout has elapsed since the call
\* started, hence since shutdown was initiated; otherwise the wait sleeps
\* again and shutdown_event is not set.
C6_NoCompletionBeforeTimeout ==
    [][(Polled /\ connection_count # 0) =>
           IF wpc' = "idle"
           THEN /\ wait_result' = "forced"
                /\ shutdown_event'
                /\ now - start_time' >= TimeoutUnits
                /\ requested_at # -1
                /\ now - requested_at >= TimeoutUnits
           ELSE /\ wpc' = "sleeping"
                /\ wait_result' = "none"
                /\ shutdown_event' = shutdown_event
      ]_vars

\* The wait was forced with every connection still registered.
C6_Witness ==
    /\ wait_result = "forced"
    /\ shutdown_event
    /\ active_connections = Handles

C8_WaitTerminates ==
    (wpc = "sleeping") ~> (wpc = "idle" /\ shutdown_event)

\* The wait returned after several polls, forced, while a handler that
\* never closes is still receiving.
C8_Witness ==
    /\ lpc = "done"
    /\ shutdown_event
    /\ polls >= 3
    /\ \E h \in Handles : spc[h] = "recv" /\ h \in active_connections

\* C9: a wait_for_shutdown call made while shutdown_initiated is false
\* returns at once: no read of connection_count, no sleep, shutdown_event
\* not set, registry and shutdown state unchanged.
C9_WaitBeforeInitiateIsNoOp ==
    [][(wait_calls' # wait_calls /\ ~shutdown_initiated) =>
           /\ wait_result' = "early"
           /\ polls' = 0
           /\ wpc' = "idle"
           /\ UNCHANGED <<shutdown_event, start_time, wake, flagVars, regVars,
                          sessVars, bcVars>>
      ]_vars

\* wait_for_shutdown returned early while a connection was registered.
C9_Witness ==
    /\ wait_result = "early"
    /\ wait_calls = 1
    /\ ~shutdown_initiated
    /\ ~shutdown_event
    /\ connection_count > 0

\* C10: shutdown_initiated is false until the first initiate_shutdown call,
\* true after it and in every later state, and a later initiate_shutdown
\* call changes nothing of the shutdown state.
C10_FlagIsOneWay ==
    [][/\ initiate_calls = 0 => ~shutdown_initiated
       /\ shutdown_initiated => shutdown_initiated'
       /\ initiate_calls' # initiate_calls => shutdown_initiated'
       /\ (~shutdown_initiated /\ shutdown_initiated') =>
              initiate_calls' # initiate_calls
       /\ (initiate_calls' # initiate_calls /\ shutdown_initiated) =>
              UNCHANGED <<shutdown_initiated, requested_at, shutdown_event,
                          wpc, start_time, wake, polls, wait_result>>
      ]_vars

\* The signal handler and then the lifespan called initiate_shutdown.
C10_Witness ==
    /\ initiate_calls = 2
    /\ lpc = "await_task"
    /\ shutdown_initiated

\* A step of the GracefulShutdownManager: an initiate_shutdown call, a
\* wait_for_shutdown call or one iteration of its polling loop.
CoordinatorStep == WaitStep \/ initiate_calls' # initiate_calls

\* C11: no step of the shutdown coordinator (initiate_shutdown, or a step
\* of wait_for_shutdown on its early-return, graceful or forced path)
\* changes the registry or any handler task: active_connections, the lock
\* and the position of every handler are the same after the step.
C11_CoordinatorLeavesSessions ==
    [][CoordinatorStep =>
           UNCHANGED <<active_connections, lock, added, removed, spc,
                       disc_calls, raised>>
      ]_vars

\* wait_for_shutdown ended on its forced path while every handler was in
\* its receive loop with its handle registered.
C11_Witness ==
    /\ wait_result = "forced"
    /\ polls > 1
    /\ \A h \in Handles : spc[h] = "recv" /\ h \in active_connections

\* C12 as claimed: the broadcaster performs no tick (counter increment,
\* message, broadcast call) in a state where shutdown_initiated is true,
\* whether the flag was set before or during its sleep.
C12_NoTickAfterRequest ==
    [][counter' # counter => ~shutdown_initiated]_vars

\* C12: the broadcaster starts a sleep only after reading
\* shutdown_initiated false at the loop head; a tick is the continuation of
\* a sleep of a task that was not cancelled, and a tick performed with the
\* flag already set is not followed by another sleep.
C12_NoNewSleepAfterRequest ==
    [][/\ (bpc # "sleep" /\ bpc' = "sleep") => ~shutdown_initiated
       /\ counter' # counter => (bpc = "sleep" /\ ~bcancel)
       /\ (counter' # counter /\ shutdown_initiated) => bpc' # "sleep"
      ]_vars

\* The signal handler set the flag during the sleep after the first tick;
\* the task is not cancelled and its next tick can run.
C12_Witness ==
    /\ bpc = "sleep"
    /\ counter = 1
    /\ shutdown_initiated
    /\ ~bcancel
    /\ active_connections # {}
    /\ ENABLED BWake

\* C13: once the broadcaster task is cancelled it performs no tick: no
\* counter increment, no broadcast call, no send on any handle; cancelled
\* in its sleep, its only step is the end of the task, the task does end
\* and the lifespan's await on it returns.
C13_CancelledSleepEndsTask ==
    /\ [][/\ bcancel =>
               /\ counter' = counter
               /\ attempted' \subseteq attempted
               /\ delivered' \subseteq delivered
               /\ disconnected' \subseteq disconnected
               /\ (bpc' = "snap_locked" => bpc = "snap_locked")
          /\ (bcancel /\ bpc = "sleep") => bpc' \in {"sleep", "done"}
          /\ (lpc = "await_task" /\ lpc' # "await_task") => bpc = "done"
         ]_vars
    /\ (bcancel /\ bpc = "sleep") ~> (bpc = "done" /\ lpc # "await_task")

\* The task is cancelled in the sleep that follows its first tick.
C13_Witness ==
    /\ bcancel
    /\ bpc = "sleep"
    /\ counter = 1
    /\ lpc = "await_task"

\* A tick that failed comes to its end: an exception reached `except
\* Exception` of the loop, or a broadcast in which sends failed returned.
FailedTickEnds ==
    \/ bpc = "sleep" /\ counter' # counter /\ bpc' \notin {"ret", "snap_locked"}
    \/ bpc = "ret" /\ bpc' # "ret" /\ disconnected # {}

\* C14: a failed tick (an exception caught by the loop, or a broadcast
\* whose sends failed, all of them included) does not end the broadcaster:
\* with shutdown not requested it goes to the sleep of the next tick, and
\* the task ends only with shutdown requested or the task cancelled.
C14_FailedTickContinues ==
    [][/\ (FailedTickEnds /\ ~shutdown_initiated) => bpc' = "sleep"
       /\ (bpc # "done" /\ bpc' = "done") => (shutdown_initiated \/ bcancel)
      ]_vars

\* Every send of the first tick's broadcast failed, on handlers still in
\* their receive loops, and the second tick was performed.
C14_Witness ==
    /\ counter = 2
    /\ bpc = "ret"
    /\ connections = {}
    /\ removed = Handles
    /\ \A h \in Handles : spc[h] = "recv"
    /\ ~shutdown_initiated

\* C15: a handler starts a ping only from its wait for inbound data, on the
\* expiry of the idle timeout, and that is one send_json.  Neither the
\* expiry nor the return of the ping changes the registry or runs
\* disconnect: after a successful ping the handler is back in its wait for
\* inbound data.  The ping position is left otherwise only by a failed send
\* or a cancellation, and a TimeoutError never takes a handler out of its
\* try block.
C15_IdleTimeoutPings ==
    [][\A h \in Handles :
           /\ (spc[h] # "ping" /\ spc'[h] = "ping") =>
                  /\ spc[h] = "recv"
                  /\ UNCHANGED <<active_connections, disc_calls>>
           /\ (spc[h] = "ping" /\ spc'[h] # "ping") =>
                  \/ /\ spc'[h] = "recv"
                     /\ UNCHANGED <<active_connections, disc_calls>>
                  \/ /\ spc'[h] = "disc_locked"
                     /\ raised'[h] \in Failures \cup {"CancelledError"}
           /\ raised'[h] # "TimeoutError"
      ]_vars

\* The idle timeout of a registered handler expired and its ping is being
\* sent, while another handler waits for inbound data.
C15_Witness ==
    \E h, g \in Handles :
        /\ spc[h] = "ping"
        /\ h \in active_connections
        /\ disc_calls[h] = 0
        /\ spc[g] = "recv"
        /\ ENABLED SendOk(h)

\* The broadcaster calls ConnectionManager.broadcast.
BroadcastCalled == bpc = "sleep" /\ bpc' \in {"ret", "snap_locked"}

\* C16: a broadcast call that finds the registry empty returns in the same
\* step, without taking the lock, without a send attempt and without a
\* removal.  Between the emptiness test and the snapshot the task does not
\* suspend, so the snapshot is never empty and no send pass or removal ever
\* runs over an empty snapshot.
C16_EmptyBroadcast ==
    [][/\ (BroadcastCalled /\ active_connections = {}) =>
              /\ bpc' = "ret"
              /\ connections' = {}
              /\ attempted' = {}
              /\ delivered' = {}
              /\ disconnected' = {}
              /\ UNCHANGED regVars
       /\ (BroadcastCalled /\ active_connections # {}) => bpc' = "snap_locked"
       /\ bpc = "snap_locked" => active_connections # {}
       /\ bpc \in {"send", "rem_locked"} => connections # {}
      ]_vars

\* broadcast was called and returned at once on a registry that the
\* handlers' disconnects had emptied.
C16_Witness ==
    /\ bpc = "ret"
    /\ connections = {}
    /\ attempted = {}
    /\ active_connections = {}
    /\ removed = Handles
    /\ lock = {}

\* A step of the broadcaster task.
BroadcastStep == bpc' # bpc \/ todo' # todo \/ counter' # counter

\* C17: no step of the broadcaster changes the registry except the batch
\* removal.  That step comes after the last send attempt of the pass, is
\* made once per broadcast call with the lock held, and takes out of the
\* registry the handles whose send failed in this pass and no other.
C17_RemovalInOneBatch ==
    [][/\ (BroadcastStep /\ bpc # "rem_locked") =>
              UNCHANGED <<active_connections, added, removed>>
       /\ (bpc # "rem_locked" /\ bpc' = "rem_locked") =>
              /\ bpc = "send"
              /\ todo' = {}
              /\ attempted' = connections
       /\ (bpc = "rem_locked" /\ bpc' # "rem_locked") =>
              /\ lock = {Broadcaster}
              /\ disconnected = attempted \ delivered
              /\ disconnected # {}
              /\ active_connections' = active_connections \ disconnected
              /\ bpc' = "ret"
      ]_vars

\* The send pass is over, both sends failed and both handles are in the
\* registry until the batch removal, which holds the lock.
C17_Witness ==
    /\ bpc = "rem_locked"
    /\ disconnected = Handles
    /\ active_connections = Handles
    /\ lock = {Broadcaster}

\* C18: the handles of one broadcast call's send pass are those of the
\* registry at the snapshot step, whatever connects and disconnects do
\* afterwards.  Each send attempt is on a snapshot handle not attempted
\* before in this call, and a call that returns has attempted every
\* snapshot handle: one attempt for each of them, none for any other.
C18_AttemptsAreTheSnapshot ==
    [][/\ (bpc = "snap_locked" /\ bpc' # "snap_locked") =>
              /\ connections' = active_connections
              /\ todo' = active_connections
              /\ attempted' = {}
       /\ (bpc = "send" /\ bpc' \in {"send", "rem_locked", "ret"}) =>
              connections' = connections
       /\ \A h \in Handles :
              (h \in attempted' /\ h \notin attempted) =>
                  /\ h \in connections
                  /\ h \in todo
                  /\ todo' = todo \ {h}
                  /\ attempted' = attempted \cup {h}
       /\ todo \cap attempted = {}
       /\ bpc = "send" => (todo # {} /\ todo \cup attempted = connections)
       /\ (bpc # "ret" /\ bpc' = "ret" /\ connections' # {}) =>
              attempted' = connections'
      ]_vars

\* During the send pass a snapshot handle whose send has not been attempted
\* yet has left the registry, its handler finished, and another handle has
\* been registered after the snapshot.
C18_Witness ==
    \E h, g \in Handles :
        /\ bpc = "send"
        /\ h \in todo
        /\ h \notin active_connections
        /\ spc[h] = "done"
        /\ g \in active_connections
        /\ g \notin connections

\* The handler of h is between the end of connect and its finally clause:
\* sending the welcome, waiting for inbound data, sending an echo or a
\* ping.
Active(h) == spc[h] \in {"welcome", "recv", "echo", "ping"}

\* C19: in every state the handle of every handler in Active state is a
\* member of active_connections, so that a registry count of 0, the
\* condition of the graceful completion of wait_for_shutdown, means that no
\* handler is in its receive loop.
C19_ActiveIsRegistered ==
    /\ \A h \in Handles : Active(h) => h \in active_connections
    /\ connection_count = 0 => \A h \in Handles : ~Active(h)

\* The handler of h has not started the send of its welcome.
BeforeWelcome(h) == spc[h] \in {"idle", "accept", "add_locked"}

\* C20 as claimed: no notification of a broadcast is sent on a handle whose
\* welcome has not been sent: a broadcast's send_json on h does not return
\* while the handler of h is still in the send_json of its welcome.
C20_WelcomeSentFirst ==
    [][\A h \in Handles :
           (h \in delivered' /\ h \notin delivered) => spc[h] # "welcome"
      ]_vars

\* C20: the send of the welcome is the first send the server starts on a
\* connection and is started once, in the step that registers the handle:
\* a handle in the registry or in a broadcast's snapshot has its welcome
\* send started, the handler never returns to a position before it, and
\* its echoes and pings follow the return of the welcome send.
C20_WelcomeSendStartsFirst ==
    [][\A h \in Handles :
           /\ (spc[h] # "welcome" /\ spc'[h] = "welcome") =>
                  /\ spc[h] = "add_locked"
                  /\ h \notin active_connections
                  /\ h \in active_connections'
           /\ ~BeforeWelcome(h) => ~BeforeWelcome(h)'
           /\ h \in active_connections \cup connections => ~BeforeWelcome(h)
           /\ (spc[h] # "recv" /\ spc'[h] = "recv") =>
                  spc[h] \in {"welcome", "echo", "ping"}
           /\ (spc[h] # spc'[h] /\ spc'[h] \in {"echo", "ping"}) =>
                  spc[h] = "recv"
      ]_vars

\* A broadcast's send on a handle has returned while the send of that
\* handle's welcome, started before it, has not.
C20_Witness ==
    \E h \in Handles :
        /\ spc[h] = "welcome"
        /\ h \in delivered
        /\ h \in active_connections
====
